---- MODULE Spec2Model ----
(***************************************************************************)
(* Model of the priority task scheduler of week3/advanced_task_scheduler   *)
(* .hpp: Task / TaskResult, ThreadPool (worker loop, enqueue, shutdown)    *)
(* and TaskScheduler (registry, cancel, wait, cleanup, statistics).        *)
(*                                                                         *)
(* Threads: NumWorkers pool workers, NumClients caller threads, and one    *)
(* detached timer thread per task scheduled in the future.  std::atomic    *)
(* loads and stores are single steps; code between two shared accesses is  *)
(* folded into the step of the access that follows it.                     *)
(***************************************************************************)
EXTENDS Integers, FiniteSets, Sequences, TLC

\* ---------------------------------------------------------------- bounds
NumWorkers == 2
NumClients == 2
MaxTasks   == 2
MaxTime    == 1
MaxCalls   == 3

Names   == {"a", "b"}
Times   == 0..MaxTime

\* ------------------------------------------------- enum class Priority
LOW      == 0
MEDIUM   == 1
HIGH     == 2
CRITICAL == 3
Priority == {LOW, MEDIUM, HIGH, CRITICAL}

\* The tasks callers schedule: an int task, a void task that throws, a task
\* due later, and a void task that cannot be cancelled.
Input(priority, scheduledTime, cancellable, throws, isVoid) ==
    [priority |-> priority, scheduledTime |-> scheduledTime,
     cancellable |-> cancellable, throws |-> throws, isVoid |-> isVoid]

TaskInputs ==
    { Input(HIGH,   0, TRUE,  FALSE, FALSE),
      Input(MEDIUM, 0, TRUE,  TRUE,  TRUE),
      Input(HIGH,   1, TRUE,  FALSE, FALSE),
      Input(LOW,    0, FALSE, FALSE, TRUE) }

\* ----------------------------------------------- enum class TaskStatus
TaskStatus == {"PENDING", "RUNNING", "COMPLETED", "FAILED", "CANCELLED"}
Terminal   == {"COMPLETED", "FAILED", "CANCELLED"}

VARIABLES
    tasks,          \* heap of Task objects, indexed by creation order
    registry,       \* TaskScheduler::tasks_ : name -> task, 0 when absent
    queue,          \* ThreadPool::tasks_ : the ready priority queue
    timers,         \* detached timer threads not yet fired
    now,            \* std::chrono::system_clock::now()
    stop_,          \* ThreadPool::stop_
    activeThreads_, \* ThreadPool::activeThreads_
    stats_,         \* TaskScheduler::stats_
    tasksMutex_,    \* owner of TaskScheduler::tasksMutex_, 0 when free
    worker,         \* per worker: position in the loop and the task held
    client,         \* per caller thread: the call in progress and its locals
    calls,          \* number of API calls started
    queueMutex_,    \* the thread that holds ThreadPool::queueMutex_
    condition_,     \* the workers blocked in ThreadPool::condition_
    dtor,           \* position of ThreadPool::~ThreadPool
    enq             \* timer threads inside ThreadPool::enqueue

poolVars == <<queueMutex_, condition_, dtor, enq>>

vars == <<tasks, registry, queue, timers, now, stop_, activeThreads_,
          stats_, tasksMutex_, worker, client, calls, queueMutex_,
          condition_, dtor, enq>>

\* Threads, as owners of queueMutex_
Thread(kind, n) == <<kind, n>>
NoThread == Thread("none", 0)

TaskIds == 1..Len(tasks)

\* The names present in TaskScheduler::tasks_
Registered == {n \in Names : registry[n] # 0}

\* The value a task's callable returns and the error it raises.
ValueOf(t) == 100 + t
ErrorOf(t) == 200 + t

Ret(kind, val) == [kind |-> kind, val |-> val]
NoRet == Ret("none", 0)

\* The TaskStatistics struct, before it is filled in
NoStats ==
    [totalTasks |-> 0, completedTasks |-> 0, failedTasks |-> 0,
     cancelledTasks |-> 0, pendingTasks |-> 0, activeThreads |-> 0,
     maxThreads |-> 0]

IdleClient ==
    [pc |-> "idle", op |-> "none", name |-> "none", ret |-> NoRet,
     tid |-> 0, status |-> "none", todo |-> {}, wantVoid |-> FALSE,
     pending |-> 0, stats |-> NoStats, listed |-> {}]

IdleWorker == [pc |-> "wait", task |-> 0, left |-> {}]

\* Task::Task together with TaskResult::TaskResult.  The last nine fields
\* are history: how often the callable was invoked, the status and stop_ at
\* the pop, whether a timer was started, how often the task was pushed on
\* the live pool, whether its enqueue threw, whether it was pushed on a
\* destroyed pool, the status when its timer woke, and how often it was
\* popped.
NewTask(name, priority, scheduledTime, cancellable, throws, isVoid) ==
    [name |-> name, priority |-> priority, scheduledTime |-> scheduledTime,
     cancellable |-> cancellable, throws |-> throws, isVoid |-> isVoid,
     status |-> "PENDING",
     rStatus |-> "PENDING", hasResult |-> FALSE, value |-> 0,
     hasException |-> FALSE, error |-> 0,
     invoked |-> 0, popStatus |-> "none",
     delayed |-> FALSE, enqueues |-> 0, enqThrew |-> FALSE,
     enqDead |-> FALSE, fireStatus |-> "none", pops |-> 0,
     popStopped |-> FALSE]

\* ThreadPool::workers_: the threads the constructor started
Workers == DOMAIN worker

\* The threads that call the scheduler
Clients == DOMAIN client

\* The state after TaskScheduler(threads) and ThreadPool(threads), lines
\* 292-320 and 378-382.
Start(threads, callers) ==
    /\ tasks = <<>>
    /\ registry = [n \in Names |-> 0]
    /\ queue = {}
    /\ timers = {}
    /\ now = 0
    /\ stop_ = FALSE
    /\ activeThreads_ = 0
    /\ stats_ = [totalTasks |-> 0, completedTasks |-> 0,
                 failedTasks |-> 0, cancelledTasks |-> 0]
    /\ tasksMutex_ = 0
    /\ worker = [w \in 1..threads |-> IdleWorker]
    /\ client = [c \in 1..callers |-> IdleClient]
    /\ calls = 0
    /\ queueMutex_ = NoThread
    /\ condition_ = {}
    /\ dtor = "none"
    /\ enq = {}

Init == Start(NumWorkers, NumClients)

\* A scheduler built with a single worker thread.
InitOneWorker == Start(1, NumClients)

\* ------------------------------------------------------- TaskComparator

\* Variant: the priority test the wrong way round.
TaskComparator_PriorityReversed(a, b) ==
    IF tasks[a].priority # tasks[b].priority
    THEN tasks[a].priority > tasks[b].priority
    ELSE tasks[a].scheduledTime > tasks[b].scheduledTime

\* Variant: the scheduled-time test the wrong way round.
TaskComparator_TimeReversed(a, b) ==
    IF tasks[a].priority # tasks[b].priority
    THEN tasks[a].priority < tasks[b].priority
    ELSE tasks[a].scheduledTime < tasks[b].scheduledTime

TaskComparator(a, b) ==
    IF tasks[a].priority # tasks[b].priority
    THEN tasks[a].priority < tasks[b].priority
    ELSE tasks[a].scheduledTime > tasks[b].scheduledTime

\* Variant: a queue that hands out any of its elements.
IsTop_Any(t, q) == t \in q

\* std::priority_queue::top(): an element no other element compares above.
IsTop(t, q) == t \in q /\ \A u \in q : ~TaskComparator(t, u)

\* ------------------------------------------------------------ the clock
Tick ==
    /\ now < MaxTime
    /\ now' = now + 1
    /\ UNCHANGED <<tasks, registry, queue, timers, stop_, activeThreads_,
                   stats_, tasksMutex_, worker, client, calls>>
    /\ UNCHANGED poolVars

\* ------------------------------------------------------------ ThreadPool

\* ThreadPool::enqueue: throws "ThreadPool has been stopped" when stop_ is
\* set, and pushes the task otherwise.
EnqueueThrows == stop_
Enqueue(t) == IF EnqueueThrows THEN queue ELSE queue \cup {t}

\* The task record after ThreadPool::enqueue was called on it.
Enqueued(r) ==
    IF EnqueueThrows THEN [r EXCEPT !.enqThrew = TRUE]
    ELSE [r EXCEPT !.enqueues = @ + 1]

\* Variant: a worker that leaves as soon as it sees stop_, whatever is queued.
WorkerTake_ExitOnStop(w) ==
    /\ worker[w].pc = "wait"
    /\ stop_ \/ queue # {}
    /\ IF stop_
       THEN /\ worker' = [worker EXCEPT ![w].pc = "exit"]
            /\ UNCHANGED <<tasks, queue>>
       ELSE \E t \in queue :
            /\ IsTop(t, queue)
            /\ queue' = queue \ {t}
            /\ worker' = [worker EXCEPT ![w] =
                   [pc |-> "inc", task |-> t, left |-> queue \ {t}]]
            /\ tasks' = [tasks EXCEPT ![t].popStatus = tasks[t].status,
                                      ![t].popStopped = stop_,
                                      ![t].pops = @ + 1]
    /\ UNCHANGED <<registry, timers, now, stop_, activeThreads_, stats_,
                   tasksMutex_, client, calls>>
    /\ UNCHANGED poolVars

\* Variant: a worker that reads the top and leaves it in the queue.
WorkerTake_NoPop(w) ==
    /\ worker[w].pc = "wait"
    /\ stop_ \/ queue # {}
    /\ IF stop_ /\ queue = {}
       THEN /\ worker' = [worker EXCEPT ![w].pc = "exit"]
            /\ UNCHANGED <<tasks, queue>>
       ELSE \E t \in queue :
            /\ IsTop(t, queue)
            /\ queue' = queue
            /\ worker' = [worker EXCEPT ![w] =
                   [pc |-> "inc", task |-> t, left |-> queue \ {t}]]
            /\ tasks' = [tasks EXCEPT ![t].popStatus = tasks[t].status,
                                      ![t].popStopped = stop_,
                                      ![t].pops = @ + 1]
    /\ UNCHANGED <<registry, timers, now, stop_, activeThreads_, stats_,
                   tasksMutex_, client, calls>>
    /\ UNCHANGED poolVars

\* Worker loop, lines 301-312: leave the wait, then exit or pop the top.
WorkerTake(w) ==
    /\ worker[w].pc = "wait"
    /\ stop_ \/ queue # {}
    /\ IF stop_ /\ queue = {}
       THEN /\ worker' = [worker EXCEPT ![w].pc = "exit"]
            /\ UNCHANGED <<tasks, queue>>
       ELSE \E t \in queue :
            /\ IsTop(t, queue)
            /\ queue' = queue \ {t}
            /\ worker' = [worker EXCEPT ![w] =
                   [pc |-> "inc", task |-> t, left |-> queue \ {t}]]
            /\ tasks' = [tasks EXCEPT ![t].popStatus = tasks[t].status,
                                      ![t].popStopped = stop_,
                                      ![t].pops = @ + 1]
    /\ UNCHANGED <<registry, timers, now, stop_, activeThreads_, stats_,
                   tasksMutex_, client, calls>>
    /\ UNCHANGED poolVars

\* line 314: ++activeThreads_
WorkerInc(w) ==
    /\ worker[w].pc = "inc"
    /\ activeThreads_' = activeThreads_ + 1
    /\ worker' = [worker EXCEPT ![w].pc = "check", ![w].left = {}]
    /\ UNCHANGED <<tasks, registry, queue, timers, now, stop_, stats_,
                   tasksMutex_, client, calls>>
    /\ UNCHANGED poolVars

\* Variant: execute() without the test for CANCELLED.
ExecuteCheck_NoTest(w) ==
    /\ worker[w].pc = "check"
    /\ worker' = [worker EXCEPT ![w].pc = "set_running"]
    /\ UNCHANGED <<tasks, registry, queue, timers, now, stop_,
                   activeThreads_, stats_, tasksMutex_, client, calls>>
    /\ UNCHANGED poolVars

\* Task::execute, lines 202-204: return at once when already CANCELLED
ExecuteCheck(w) ==
    /\ worker[w].pc = "check"
    /\ worker' = [worker EXCEPT ![w].pc =
           IF tasks[worker[w].task].status = "CANCELLED"
           THEN "dec" ELSE "set_running"]
    /\ UNCHANGED <<tasks, registry, queue, timers, now, stop_,
                   activeThreads_, stats_, tasksMutex_, client, calls>>
    /\ UNCHANGED poolVars

\* Task::execute, line 206: status_ = RUNNING
ExecuteSetRunning(w) ==
    /\ worker[w].pc = "set_running"
    /\ tasks' = [tasks EXCEPT ![worker[w].task].status = "RUNNING"]
    /\ worker' = [worker EXCEPT ![w].pc = "run"]
    /\ UNCHANGED <<registry, queue, timers, now, stop_, activeThreads_,
                   stats_, tasksMutex_, client, calls>>
    /\ UNCHANGED poolVars

\* TaskResult::setResult / TaskResult<void>::setCompleted
SetResult(r, t) ==
    IF r.isVoid
    THEN [r EXCEPT !.rStatus = "COMPLETED"]
    ELSE [r EXCEPT !.hasResult = TRUE, !.value = ValueOf(t),
                   !.rStatus = "COMPLETED"]

\* TaskResult::setException
SetException(r, t) ==
    [r EXCEPT !.hasException = TRUE, !.error = ErrorOf(t),
              !.rStatus = "FAILED"]

\* Variant: the callable runs but nothing is stored in result_.
ExecuteRun_NoStore(w) ==
    /\ worker[w].pc = "run"
    /\ LET t == worker[w].task
       IN  tasks' = [tasks EXCEPT ![t].invoked = @ + 1]
    /\ worker' = [worker EXCEPT ![w].pc = "set_final"]
    /\ UNCHANGED <<registry, queue, timers, now, stop_, activeThreads_,
                   stats_, tasksMutex_, client, calls>>
    /\ UNCHANGED poolVars

\* Task::execute, lines 208-214 and 216-217: the callable runs and its
\* value or its error is stored in result_.
ExecuteRun(w) ==
    /\ worker[w].pc = "run"
    /\ LET t == worker[w].task
           r == [tasks[t] EXCEPT !.invoked = tasks[t].invoked + 1]
       IN  tasks' = [tasks EXCEPT ![t] =
               IF r.throws THEN SetException(r, t) ELSE SetResult(r, t)]
    /\ worker' = [worker EXCEPT ![w].pc = "set_final"]
    /\ UNCHANGED <<registry, queue, timers, now, stop_, activeThreads_,
                   stats_, tasksMutex_, client, calls>>
    /\ UNCHANGED poolVars

\* Task::execute, lines 215 and 218: status_ = COMPLETED or FAILED
ExecuteSetFinal(w) ==
    /\ worker[w].pc = "set_final"
    /\ LET t == worker[w].task
       IN  tasks' = [tasks EXCEPT ![t].status =
               IF tasks[t].throws THEN "FAILED" ELSE "COMPLETED"]
    /\ worker' = [worker EXCEPT ![w].pc = "dec"]
    /\ UNCHANGED <<registry, queue, timers, now, stop_, activeThreads_,
                   stats_, tasksMutex_, client, calls>>
    /\ UNCHANGED poolVars

\* Variant: a worker that goes back to the wait without the decrement.
WorkerDec_NoDecrement(w) ==
    /\ worker[w].pc = "dec"
    /\ activeThreads_' = activeThreads_
    /\ worker' = [worker EXCEPT ![w] = IdleWorker]
    /\ UNCHANGED <<tasks, registry, queue, timers, now, stop_, stats_,
                   tasksMutex_, client, calls>>
    /\ UNCHANGED poolVars

\* line 316: --activeThreads_, then back to the wait
WorkerDec(w) ==
    /\ worker[w].pc = "dec"
    /\ activeThreads_' = activeThreads_ - 1
    /\ worker' = [worker EXCEPT ![w] = IdleWorker]
    /\ UNCHANGED <<tasks, registry, queue, timers, now, stop_, stats_,
                   tasksMutex_, client, calls>>
    /\ UNCHANGED poolVars

\* ThreadPool::~ThreadPool, lines 323-328, run by the owner of the scheduler
\* once no call is in progress.
Shutdown ==
    /\ ~stop_
    /\ \A c \in Clients : client[c].pc = "idle"
    /\ stop_' = TRUE
    /\ UNCHANGED <<tasks, registry, queue, timers, now, activeThreads_,
                   stats_, tasksMutex_, worker, client, calls>>
    /\ UNCHANGED poolVars

\* Every worker has left its loop (line 307).
AllExited == \A w \in Workers : worker[w].pc = "exit"

\* ThreadPool::~ThreadPool has joined every worker (lines 330-334) and
\* returned: the pool and its queue no longer exist.
Destroyed == stop_ /\ AllExited

\* Variant: a timer thread that enqueues without sleeping until the
\* scheduled time.
TimerFire_NoSleep(t) ==
    /\ t \in timers
    /\ LET r == [tasks[t] EXCEPT !.fireStatus = tasks[t].status] IN
       IF Destroyed
       THEN \E pushed \in BOOLEAN :
            /\ queue' = IF pushed THEN queue \cup {t} ELSE queue
            /\ tasks' = [tasks EXCEPT ![t] =
                   IF pushed THEN [r EXCEPT !.enqDead = TRUE]
                   ELSE [r EXCEPT !.enqThrew = TRUE]]
       ELSE /\ queue' = Enqueue(t)
            /\ tasks' = [tasks EXCEPT ![t] = Enqueued(r)]
    /\ timers' = timers \ {t}
    /\ UNCHANGED <<registry, now, stop_, activeThreads_, stats_,
                   tasksMutex_, worker, client, calls>>
    /\ UNCHANGED poolVars

\* Variant: a timer that drops a task it finds CANCELLED when it wakes.
TimerFire_SkipCancelled(t) ==
    /\ t \in timers
    /\ now >= tasks[t].scheduledTime
    /\ LET r == [tasks[t] EXCEPT !.fireStatus = tasks[t].status] IN
       IF tasks[t].status = "CANCELLED"
       THEN /\ queue' = queue
            /\ tasks' = [tasks EXCEPT ![t] = r]
       ELSE IF Destroyed
       THEN \E pushed \in BOOLEAN :
            /\ queue' = IF pushed THEN queue \cup {t} ELSE queue
            /\ tasks' = [tasks EXCEPT ![t] =
                   IF pushed THEN [r EXCEPT !.enqDead = TRUE]
                   ELSE [r EXCEPT !.enqThrew = TRUE]]
       ELSE /\ queue' = Enqueue(t)
            /\ tasks' = [tasks EXCEPT ![t] = Enqueued(r)]
    /\ timers' = timers \ {t}
    /\ UNCHANGED <<registry, now, stop_, activeThreads_, stats_,
                   tasksMutex_, worker, client, calls>>
    /\ UNCHANGED poolVars

\* The timer thread of scheduleTask, lines 409-415: sleep until the
\* scheduled time, then enqueue.  The thread is detached and holds `this`:
\* when it wakes after the pool was destroyed, enqueue reads stop_ and the
\* queue of a dead object, and either throws or pushes.
TimerFire(t) ==
    /\ t \in timers
    /\ now >= tasks[t].scheduledTime
    /\ LET r == [tasks[t] EXCEPT !.fireStatus = tasks[t].status] IN
       IF Destroyed
       THEN \E pushed \in BOOLEAN :
            /\ queue' = IF pushed THEN queue \cup {t} ELSE queue
            /\ tasks' = [tasks EXCEPT ![t] =
                   IF pushed THEN [r EXCEPT !.enqDead = TRUE]
                   ELSE [r EXCEPT !.enqThrew = TRUE]]
       ELSE /\ queue' = Enqueue(t)
            /\ tasks' = [tasks EXCEPT ![t] = Enqueued(r)]
    /\ timers' = timers \ {t}
    /\ UNCHANGED <<registry, now, stop_, activeThreads_, stats_,
                   tasksMutex_, worker, client, calls>>
    /\ UNCHANGED poolVars

\* ------------------------------------------------------- TaskScheduler

\* A caller thread may start a call.
CanCall(c) ==
    /\ client[c].pc = "idle"
    /\ tasksMutex_ = 0
    /\ ~stop_
    /\ dtor = "none"
    /\ calls < MaxCalls

Begin(c, op, name) ==
    [IdleClient EXCEPT !.op = op, !.name = name]

\* A call returns (or its exception leaves it); a held lock is released.
Return(c) ==
    /\ client[c].pc = "ret"
    /\ client' = [client EXCEPT ![c] = IdleClient]
    /\ tasksMutex_' = IF tasksMutex_ = c THEN 0 ELSE tasksMutex_
    /\ UNCHANGED <<tasks, registry, queue, timers, now, stop_,
                   activeThreads_, stats_, worker, calls>>
    /\ UNCHANGED poolVars

\* Variant: no test for a name already in use.
IsDuplicate_Never(name) == FALSE

\* TaskScheduler::scheduleTask, line 394: the name is already registered
IsDuplicate(name) == name \in Registered

\* TaskScheduler::scheduleTask.  The lock is held throughout and the only
\* effect other threads can see before the return is the enqueue.
scheduleTask(c, name, priority, scheduledTime, cancellable, throws, isVoid) ==
    /\ CanCall(c)
    /\ calls' = calls + 1
    /\ tasksMutex_' = c
    /\ IF IsDuplicate(name)
       THEN /\ client' = [client EXCEPT ![c] =
                   [Begin(c, "scheduleTask", name) EXCEPT
                       !.pc = "ret", !.ret = Ret("DuplicateTask", 0)]]
            /\ UNCHANGED <<tasks, registry, queue, timers, stats_>>
       ELSE /\ Len(tasks) < MaxTasks
            /\ LET t == Len(tasks) + 1
                   r == NewTask(name, priority, scheduledTime, cancellable,
                                throws, isVoid)
               IN
               /\ tasks' = Append(tasks,
                      IF scheduledTime <= now THEN Enqueued(r)
                      ELSE [r EXCEPT !.delayed = TRUE])
               /\ registry' = [registry EXCEPT ![name] = t]
               /\ stats_' = [stats_ EXCEPT !.totalTasks = @ + 1]
               /\ IF scheduledTime <= now
                  THEN queue' = Enqueue(t) /\ timers' = timers
                  ELSE timers' = timers \cup {t} /\ queue' = queue
               /\ client' = [client EXCEPT ![c] =
                      [Begin(c, "scheduleTask", name) EXCEPT
                          !.pc = "ret", !.tid = t, !.ret = Ret("task", t)]]
    /\ UNCHANGED <<now, stop_, activeThreads_, worker>>
    /\ UNCHANGED poolVars

\* TaskScheduler::cancelTask, lines 423-431: lock, find, first test
cancelTask(c, name) ==
    /\ CanCall(c)
    /\ calls' = calls + 1
    /\ tasksMutex_' = c
    /\ LET b == Begin(c, "cancelTask", name)
           t == registry[name]
       IN  client' = [client EXCEPT ![c] =
               IF name \notin Registered
               THEN [b EXCEPT !.pc = "ret", !.ret = Ret("TaskNotFound", 0)]
               ELSE IF tasks[t].cancellable /\ tasks[t].status = "PENDING"
               THEN [b EXCEPT !.pc = "cancel_test", !.tid = t,
                              !.status = tasks[t].status]
               ELSE [b EXCEPT !.pc = "ret", !.tid = t,
                              !.status = tasks[t].status,
                              !.ret = Ret("false", 0)]]
    /\ UNCHANGED <<tasks, registry, queue, timers, now, stop_,
                   activeThreads_, stats_, worker>>
    /\ UNCHANGED poolVars

\* Task::cancel, line 239: the second test of cancellable_ and status_
CancelTest(c) ==
    /\ client[c].pc = "cancel_test"
    /\ LET t == client[c].tid
       IN  client' = [client EXCEPT
               ![c].status = tasks[t].status,
               ![c].pc = IF tasks[t].cancellable /\ tasks[t].status = "PENDING"
                         THEN "cancel_set" ELSE "cancel_count"]
    /\ UNCHANGED <<tasks, registry, queue, timers, now, stop_,
                   activeThreads_, stats_, tasksMutex_, worker, calls>>
    /\ UNCHANGED poolVars

\* Task::cancel, line 240: status_ = CANCELLED
CancelSet(c) ==
    /\ client[c].pc = "cancel_set"
    /\ tasks' = [tasks EXCEPT ![client[c].tid].status = "CANCELLED"]
    /\ client' = [client EXCEPT ![c].pc = "cancel_mirror"]
    /\ UNCHANGED <<registry, queue, timers, now, stop_, activeThreads_,
                   stats_, tasksMutex_, worker, calls>>
    /\ UNCHANGED poolVars

\* Task::cancel, line 241: result_.setStatus(CANCELLED)
CancelMirror(c) ==
    /\ client[c].pc = "cancel_mirror"
    /\ tasks' = [tasks EXCEPT ![client[c].tid].rStatus = "CANCELLED"]
    /\ client' = [client EXCEPT ![c].pc = "cancel_count"]
    /\ UNCHANGED <<registry, queue, timers, now, stop_, activeThreads_,
                   stats_, tasksMutex_, worker, calls>>
    /\ UNCHANGED poolVars

\* TaskScheduler::cancelTask, lines 433-434: count and return true
CancelCount(c) ==
    /\ client[c].pc = "cancel_count"
    /\ stats_' = [stats_ EXCEPT !.cancelledTasks = @ + 1]
    /\ client' = [client EXCEPT ![c].pc = "ret", ![c].ret = Ret("true", 0)]
    /\ UNCHANGED <<tasks, registry, queue, timers, now, stop_,
                   activeThreads_, tasksMutex_, worker, calls>>
    /\ UNCHANGED poolVars

\* TaskScheduler::getTaskStatus, lines 442-449: lock, find, first load.
\* Also the first half of the status poll of waitForTask.
StatusLoad(c, b) ==
    /\ tasksMutex_' = c
    /\ LET t == registry[b.name]
       IN  client' = [client EXCEPT ![c] =
               IF b.name \notin Registered
               THEN [b EXCEPT !.pc = "ret", !.ret = Ret("TaskNotFound", 0)]
               ELSE [b EXCEPT !.pc = "status_recheck", !.tid = t,
                              !.status = tasks[t].status]]
    /\ UNCHANGED <<tasks, registry, queue, timers, now, stop_,
                   activeThreads_, stats_, worker>>
    /\ UNCHANGED poolVars

getTaskStatus(c, name) ==
    /\ CanCall(c)
    /\ calls' = calls + 1
    /\ StatusLoad(c, Begin(c, "getTaskStatus", name))

\* Variant: getTaskStatus counting a task it reads as COMPLETED or FAILED.
StatusStats_CountOnRead(first, second) ==
    IF first = "COMPLETED"
    THEN [stats_ EXCEPT !.completedTasks = @ + 1]
    ELSE IF first = "FAILED"
    THEN [stats_ EXCEPT !.failedTasks = @ + 1]
    ELSE stats_

\* TaskScheduler::getTaskStatus, lines 452-458: the statistics update, with
\* its second load of the status
StatusStats(first, second) ==
    IF first = "COMPLETED" /\ second # "COMPLETED"
    THEN [stats_ EXCEPT !.completedTasks = @ + 1]
    ELSE IF first = "FAILED" /\ second # "FAILED"
    THEN [stats_ EXCEPT !.failedTasks = @ + 1]
    ELSE stats_

\* TaskResult::getResult on a copy of the task's result_
GetResult(r, t) ==
    IF r.hasException THEN Ret("user_error", r.error)
    ELSE IF r.isVoid
    THEN IF r.rStatus # "COMPLETED" THEN Ret("NotCompleted", 0)
         ELSE Ret("void", 0)
    ELSE IF ~r.hasResult THEN Ret("NoResult", 0)
         ELSE Ret("value", r.value)

\* TaskScheduler::getTaskStatus, lines 452-460.  In waitForTask the poll
\* goes on, lines 499-510: fetch the result, raise, or sleep and poll again.
StatusRecheck(c) ==
    /\ client[c].pc = "status_recheck"
    /\ LET t == client[c].tid
           st == client[c].status
       IN  /\ stats_' = StatusStats(st, tasks[t].status)
           /\ IF client[c].op = "getTaskStatus"
              THEN /\ client' = [client EXCEPT ![c].pc = "ret",
                                               ![c].ret = Ret(st, 0)]
                   /\ UNCHANGED tasksMutex_
              ELSE /\ tasksMutex_' = 0
                   /\ client' = [client EXCEPT ![c] =
                          IF st \in {"COMPLETED", "FAILED"}
                          THEN [@ EXCEPT !.pc = "wait_result"]
                          ELSE IF st = "CANCELLED"
                          THEN [@ EXCEPT !.pc = "ret",
                                         !.ret = Ret("Cancelled", 0)]
                          ELSE [@ EXCEPT !.pc = "wait_poll"]]
    /\ UNCHANGED <<tasks, registry, queue, timers, now, stop_,
                   activeThreads_, worker, calls>>
    /\ UNCHANGED poolVars

\* Variant: asking for the result of an unregistered name raises "no
\* result" instead of TaskNotFound.
ResultOf_Missing(name, wantVoid) ==
    LET t == registry[name] IN
    IF name \notin Registered THEN Ret("NoResult", 0)
    ELSE IF tasks[t].isVoid # wantVoid THEN Ret("TypeMismatch", 0)
    ELSE GetResult(tasks[t], t)

\* TaskScheduler::getTaskResult<ResultType>(name).getResult()
ResultOf(name, wantVoid) ==
    LET t == registry[name] IN
    IF name \notin Registered THEN Ret("TaskNotFound", 0)
    ELSE IF tasks[t].isVoid # wantVoid THEN Ret("TypeMismatch", 0)
    ELSE GetResult(tasks[t], t)

getTaskResult(c, name, wantVoid) ==
    /\ CanCall(c)
    /\ calls' = calls + 1
    /\ tasksMutex_' = c
    /\ client' = [client EXCEPT ![c] =
           [Begin(c, "getTaskResult", name) EXCEPT
               !.pc = "ret", !.tid = registry[name], !.wantVoid = wantVoid,
               !.ret = ResultOf(name, wantVoid)]]
    /\ UNCHANGED <<tasks, registry, queue, timers, now, stop_,
                   activeThreads_, stats_, worker>>
    /\ UNCHANGED poolVars

\* Task::getResultAsAny: the value if there is one, else an empty any
GetResultAsAny(r) ==
    IF r.isVoid THEN Ret("empty_any", 0)
    ELSE IF r.hasResult THEN Ret("any", r.value)
    ELSE Ret("empty_any", 0)

\* Variant: an unregistered name yields an empty any instead of an error.
AnyOf_Missing(name) ==
    IF name \notin Registered THEN Ret("empty_any", 0)
    ELSE GetResultAsAny(tasks[registry[name]])

\* TaskScheduler::getTaskResultAsAny, lines 467-472
AnyOf(name) ==
    IF name \notin Registered THEN Ret("TaskNotFound", 0)
    ELSE GetResultAsAny(tasks[registry[name]])

getTaskResultAsAny(c, name) ==
    /\ CanCall(c)
    /\ calls' = calls + 1
    /\ tasksMutex_' = c
    /\ client' = [client EXCEPT ![c] =
           [Begin(c, "getTaskResultAsAny", name) EXCEPT
               !.pc = "ret", !.tid = registry[name], !.ret = AnyOf(name)]]
    /\ UNCHANGED <<tasks, registry, queue, timers, now, stop_,
                   activeThreads_, stats_, worker>>
    /\ UNCHANGED poolVars

\* TaskScheduler::getStatistics, lines 546-548: lock, pending = 0
getStatistics(c) ==
    /\ CanCall(c)
    /\ calls' = calls + 1
    /\ tasksMutex_' = c
    /\ client' = [client EXCEPT ![c] =
           [Begin(c, "getStatistics", "none") EXCEPT
               !.pc = "stats_scan", !.todo = Registered]]
    /\ UNCHANGED <<tasks, registry, queue, timers, now, stop_,
                   activeThreads_, stats_, worker>>
    /\ UNCHANGED poolVars

\* The TaskStatistics value built at lines 555-563
TaskStatistics(pending) ==
    [totalTasks |-> stats_.totalTasks,
     completedTasks |-> stats_.completedTasks,
     failedTasks |-> stats_.failedTasks,
     cancelledTasks |-> stats_.cancelledTasks,
     pendingTasks |-> pending,
     activeThreads |-> activeThreads_,
     maxThreads |-> Cardinality(Workers)]

\* TaskScheduler::getStatistics, lines 549-563: one entry of the registry,
\* or, after the last one, the value returned
StatisticsScan(c) ==
    /\ client[c].pc = "stats_scan"
    /\ IF client[c].todo = {}
       THEN client' = [client EXCEPT
                ![c].pc = "ret", ![c].ret = Ret("stats", 0),
                ![c].pending = 0,
                ![c].stats = TaskStatistics(client[c].pending)]
       ELSE \E n \in client[c].todo :
            client' = [client EXCEPT
                ![c].todo = @ \ {n},
                ![c].pending = IF tasks[registry[n]].status = "PENDING"
                               THEN @ + 1 ELSE @]
    /\ UNCHANGED <<tasks, registry, queue, timers, now, stop_,
                   activeThreads_, stats_, tasksMutex_, worker, calls>>
    /\ UNCHANGED poolVars

\* TaskScheduler::listTasks, lines 568-571: lock, empty vector
listTasks(c) ==
    /\ CanCall(c)
    /\ calls' = calls + 1
    /\ tasksMutex_' = c
    /\ client' = [client EXCEPT ![c] =
           [Begin(c, "listTasks", "none") EXCEPT
               !.pc = "list_scan", !.todo = Registered]]
    /\ UNCHANGED <<tasks, registry, queue, timers, now, stop_,
                   activeThreads_, stats_, worker>>
    /\ UNCHANGED poolVars

\* TaskScheduler::listTasks, lines 573-577: one entry of the registry with
\* the status loaded for it, or, after the last one, the return
ListScan(c) ==
    /\ client[c].pc = "list_scan"
    /\ IF client[c].todo = {}
       THEN client' = [client EXCEPT ![c].pc = "ret",
                                     ![c].ret = Ret("list", 0)]
       ELSE \E n \in client[c].todo :
            client' = [client EXCEPT
                ![c].todo = @ \ {n},
                ![c].listed = @ \cup
                    {[name |-> n, status |-> tasks[registry[n]].status]}]
    /\ UNCHANGED <<tasks, registry, queue, timers, now, stop_,
                   activeThreads_, stats_, tasksMutex_, worker, calls>>
    /\ UNCHANGED poolVars

\* TaskScheduler::waitForTask, line 498: the first poll
waitForTask(c, name, wantVoid) ==
    /\ CanCall(c)
    /\ calls' = calls + 1
    /\ StatusLoad(c, [Begin(c, "waitForTask", name) EXCEPT
                         !.wantVoid = wantVoid])

\* TaskScheduler::waitForTask, lines 510 and 498: sleep, then poll again
WaitPoll(c) ==
    /\ client[c].pc = "wait_poll"
    /\ tasksMutex_ = 0
    /\ StatusLoad(c, [Begin(c, "waitForTask", client[c].name) EXCEPT
                         !.wantVoid = client[c].wantVoid])
    /\ UNCHANGED calls

\* TaskScheduler::waitForTask, lines 500 and 502: getTaskResult(name)
\* .getResult(); a FAILED task whose getResult() does not throw is polled
\* again.
WaitResult(c) ==
    /\ client[c].pc = "wait_result"
    /\ tasksMutex_ = 0
    /\ LET r == ResultOf(client[c].name, client[c].wantVoid)
           raised == r.kind \notin {"value", "void"}
       IN  client' = [client EXCEPT ![c] =
               IF client[c].status = "FAILED" /\ ~raised
               THEN [@ EXCEPT !.pc = "wait_poll"]
               ELSE [@ EXCEPT !.pc = "ret", !.tid = registry[client[c].name],
                              !.ret = r]]
    /\ UNCHANGED <<tasks, registry, queue, timers, now, stop_,
                   activeThreads_, stats_, tasksMutex_, worker, calls>>
    /\ UNCHANGED poolVars

\* TaskScheduler::waitForAll, lines 519-522: sleep, lock, allDone = true
ScanBegin(c) ==
    /\ tasksMutex_' = c
    /\ client' = [client EXCEPT ![c] =
           [Begin(c, "waitForAll", "none") EXCEPT
               !.pc = "all_scan", !.todo = Registered]]
    /\ UNCHANGED <<tasks, registry, queue, timers, now, stop_,
                   activeThreads_, stats_, worker>>
    /\ UNCHANGED poolVars

waitForAll(c) ==
    /\ CanCall(c)
    /\ calls' = calls + 1
    /\ ScanBegin(c)

\* TaskScheduler::waitForAll, line 518: not all done, go round again
WaitAllAgain(c) ==
    /\ client[c].pc = "all_sleep"
    /\ tasksMutex_ = 0
    /\ ScanBegin(c)
    /\ UNCHANGED calls

\* TaskScheduler::waitForAll, lines 524-530: one entry of the registry, in
\* the unspecified order of the unordered_map
WaitAllScan(c) ==
    /\ client[c].pc = "all_scan"
    /\ IF client[c].todo = {}
       THEN /\ client' = [client EXCEPT ![c].pc = "ret",
                                        ![c].ret = Ret("void", 0)]
            /\ UNCHANGED tasksMutex_
       ELSE \E n \in client[c].todo :
            IF tasks[registry[n]].status \in {"PENDING", "RUNNING"}
            THEN /\ client' = [client EXCEPT ![c].pc = "all_sleep",
                                             ![c].todo = {}]
                 /\ tasksMutex_' = 0
            ELSE /\ client' = [client EXCEPT ![c].todo = @ \ {n}]
                 /\ UNCHANGED tasksMutex_
    /\ UNCHANGED <<tasks, registry, queue, timers, now, stop_,
                   activeThreads_, stats_, worker, calls>>
    /\ UNCHANGED poolVars

\* TaskScheduler::cleanup, lines 582-584: lock and start the iteration
cleanup(c) ==
    /\ CanCall(c)
    /\ calls' = calls + 1
    /\ tasksMutex_' = c
    /\ client' = [client EXCEPT ![c] =
           [Begin(c, "cleanup", "none") EXCEPT
               !.pc = "cleanup_scan", !.todo = Registered]]
    /\ UNCHANGED <<tasks, registry, queue, timers, now, stop_,
                   activeThreads_, stats_, worker>>
    /\ UNCHANGED poolVars

\* Variant: cleanup() erasing every entry.
Erasable_Always(status) == TRUE

\* Variant: cleanup() erasing everything that is not PENDING.
Erasable_NotPending(status) == status # "PENDING"

\* The test of TaskScheduler::cleanup, lines 586-588
Erasable(status) == status \in {"COMPLETED", "FAILED", "CANCELLED"}

\* TaskScheduler::cleanup, lines 584-593: one entry of the registry
CleanupScan(c) ==
    /\ client[c].pc = "cleanup_scan"
    /\ IF client[c].todo = {}
       THEN /\ client' = [client EXCEPT ![c].pc = "ret",
                                        ![c].ret = Ret("void", 0)]
            /\ UNCHANGED registry
       ELSE \E n \in client[c].todo :
            /\ client' = [client EXCEPT ![c].todo = @ \ {n}]
            /\ registry' = IF Erasable(tasks[registry[n]].status)
                           THEN [registry EXCEPT ![n] = 0]
                           ELSE registry
    /\ UNCHANGED <<tasks, queue, timers, now, stop_, activeThreads_,
                   stats_, tasksMutex_, worker, calls>>
    /\ UNCHANGED poolVars

\* ------------------------------------------------------------------ Next
WorkerSteps(w) ==
    \/ WorkerTake(w)
    \/ WorkerInc(w)
    \/ ExecuteCheck(w)
    \/ ExecuteSetRunning(w)
    \/ ExecuteRun(w)
    \/ ExecuteSetFinal(w)
    \/ WorkerDec(w)

WorkerStep == \E w \in Workers : WorkerSteps(w)

Schedule ==
    \E c \in Clients, name \in Names, in \in TaskInputs :
        scheduleTask(c, name, in.priority, in.scheduledTime, in.cancellable,
                     in.throws, in.isVoid)

Cancel ==
    \E c \in Clients :
        \/ \E name \in Names : cancelTask(c, name)
        \/ CancelTest(c)
        \/ CancelSet(c)
        \/ CancelMirror(c)
        \/ CancelCount(c)

Query ==
    \E c \in Clients :
        \/ \E name \in Names : getTaskStatus(c, name)
        \/ StatusRecheck(c)
        \/ \E name \in Names, wantVoid \in BOOLEAN :
               getTaskResult(c, name, wantVoid)
        \/ \E name \in Names : getTaskResultAsAny(c, name)
        \/ getStatistics(c)
        \/ StatisticsScan(c)
        \/ listTasks(c)
        \/ ListScan(c)

Wait ==
    \E c \in Clients :
        \/ \E name \in Names, wantVoid \in BOOLEAN :
               waitForTask(c, name, wantVoid)
        \/ WaitPoll(c)
        \/ WaitResult(c)
        \/ waitForAll(c)
        \/ WaitAllAgain(c)
        \/ WaitAllScan(c)

Clean ==
    \E c \in Clients : cleanup(c) \/ CleanupScan(c)

Next ==
    \/ Tick
    \/ WorkerStep
    \/ \E t \in timers : TimerFire(t)
    \/ Shutdown
    \/ Schedule
    \/ Cancel
    \/ Query
    \/ Wait
    \/ Clean
    \/ \E c \in Clients : Return(c)

Spec == Init /\ [][Next]_vars

SpecOneWorker == InitOneWorker /\ [][Next]_vars

\* ================================= the pool at the level of its lock
\* The same program with ThreadPool::queueMutex_ and ThreadPool::condition_
\* explicit: a worker locks, tests the wait predicate and blocks or takes;
\* enqueue locks, pushes, unlocks and notifies one waiter; the destructor
\* locks, sets stop_, unlocks, notifies all and joins.

\* Every thread is gone: std::terminate after an exception left a detached
\* timer thread (lines 409-415 have no handler).
DeadWorker == [pc |-> "dead", task |-> 0, left |-> {}]
DeadClient == [IdleClient EXCEPT !.pc = "dead"]

Terminate ==
    /\ worker' = [w \in Workers |-> DeadWorker]
    /\ client' = [c \in Clients |-> DeadClient]
    /\ timers' = {}
    /\ enq' = {}
    /\ dtor' = "dead"
    /\ queueMutex_' = NoThread
    /\ condition_' = {}
    /\ tasksMutex_' = 0

\* Variant: a notify_one that wakes nobody.
NotifyOne_None == {condition_}

\* condition_.notify_one(), line 345: the waiters left blocked, for each
\* choice of the waiter woken
NotifyOne ==
    IF condition_ = {} THEN {condition_}
    ELSE {condition_ \ {w} : w \in condition_}

\* condition_.notify_all(), line 328
NotifyAll == {{}}

\* Worker loop, line 301: std::unique_lock lock(queueMutex_), at the top of
\* the loop or when leaving the wait after a notification
PoolLock(w) ==
    /\ worker[w].pc = "wait"
    /\ w \notin condition_
    /\ queueMutex_ = NoThread
    /\ queueMutex_' = Thread("worker", w)
    /\ UNCHANGED <<tasks, registry, queue, timers, now, stop_,
                   activeThreads_, stats_, tasksMutex_, worker, client,
                   calls, condition_, dtor, enq>>

\* Worker loop, lines 302-304: the predicate is false, so wait() releases
\* the lock and blocks
PoolWait(w) ==
    /\ queueMutex_ = Thread("worker", w)
    /\ ~(stop_ \/ queue # {})
    /\ condition_' = condition_ \cup {w}
    /\ queueMutex_' = NoThread
    /\ UNCHANGED <<tasks, registry, queue, timers, now, stop_,
                   activeThreads_, stats_, tasksMutex_, worker, client,
                   calls, dtor, enq>>

\* Variant: a worker that reads the registry, under its lock, before it
\* takes a task.
PoolTake_Registry(w) ==
    /\ queueMutex_ = Thread("worker", w)
    /\ stop_ \/ queue # {}
    /\ tasksMutex_ = 0
    /\ IF stop_ /\ queue = {}
       THEN /\ worker' = [worker EXCEPT ![w].pc = "exit"]
            /\ UNCHANGED <<tasks, queue>>
       ELSE \E t \in queue :
            /\ IsTop(t, queue)
            /\ queue' = queue \ {t}
            /\ worker' = [worker EXCEPT ![w] =
                   [pc |-> "inc", task |-> t, left |-> queue \ {t}]]
            /\ tasks' = [tasks EXCEPT ![t].popStatus = tasks[t].status,
                                      ![t].popStopped = stop_,
                                      ![t].pops = @ + 1]
    /\ queueMutex_' = NoThread
    /\ UNCHANGED <<registry, timers, now, stop_, activeThreads_, stats_,
                   tasksMutex_, client, calls, condition_, dtor, enq>>

\* Worker loop, lines 302-312: the predicate is true; return when stopped
\* with an empty queue, else take the top; the lock is released at the end
\* of the block
PoolTake(w) ==
    /\ queueMutex_ = Thread("worker", w)
    /\ stop_ \/ queue # {}
    /\ IF stop_ /\ queue = {}
       THEN /\ worker' = [worker EXCEPT ![w].pc = "exit"]
            /\ UNCHANGED <<tasks, queue>>
       ELSE \E t \in queue :
            /\ IsTop(t, queue)
            /\ queue' = queue \ {t}
            /\ worker' = [worker EXCEPT ![w] =
                   [pc |-> "inc", task |-> t, left |-> queue \ {t}]]
            /\ tasks' = [tasks EXCEPT ![t].popStatus = tasks[t].status,
                                      ![t].popStopped = stop_,
                                      ![t].pops = @ + 1]
    /\ queueMutex_' = NoThread
    /\ UNCHANGED <<registry, timers, now, stop_, activeThreads_, stats_,
                   tasksMutex_, client, calls, condition_, dtor, enq>>

\* std::condition_variable::wait may return without a notification; the
\* worker then locks and tests the predicate again.
SpuriousWake(w) ==
    /\ w \in condition_
    /\ condition_' = condition_ \ {w}
    /\ UNCHANGED <<tasks, registry, queue, timers, now, stop_,
                   activeThreads_, stats_, tasksMutex_, worker, client,
                   calls, queueMutex_, dtor, enq>>

\* TaskScheduler::scheduleTask, lines 392-416, up to the call of enqueue:
\* lock, duplicate test, registration, and the timer thread for a task
\* that is not yet due
ScheduleRegister(c, name, priority, scheduledTime, cancellable, throws, isVoid) ==
    /\ CanCall(c)
    /\ calls' = calls + 1
    /\ tasksMutex_' = c
    /\ IF IsDuplicate(name)
       THEN /\ client' = [client EXCEPT ![c] =
                   [Begin(c, "scheduleTask", name) EXCEPT
                       !.pc = "ret", !.ret = Ret("DuplicateTask", 0)]]
            /\ UNCHANGED <<tasks, registry, timers, stats_>>
       ELSE /\ Len(tasks) < MaxTasks
            /\ LET t == Len(tasks) + 1
                   r == NewTask(name, priority, scheduledTime, cancellable,
                                throws, isVoid)
               IN
               /\ tasks' = Append(tasks,
                      IF scheduledTime <= now THEN r
                      ELSE [r EXCEPT !.delayed = TRUE])
               /\ registry' = [registry EXCEPT ![name] = t]
               /\ stats_' = [stats_ EXCEPT !.totalTasks = @ + 1]
               /\ timers' = IF scheduledTime <= now THEN timers
                            ELSE timers \cup {t}
               /\ client' = [client EXCEPT ![c] =
                      IF scheduledTime <= now
                      THEN [Begin(c, "scheduleTask", name) EXCEPT
                               !.pc = "enq_lock", !.tid = t]
                      ELSE [Begin(c, "scheduleTask", name) EXCEPT
                               !.pc = "ret", !.tid = t,
                               !.ret = Ret("task", t)]]
    /\ UNCHANGED <<queue, now, stop_, activeThreads_, worker, poolVars>>

\* ThreadPool::enqueue called by scheduleTask, line 339: the lock
EnqueueLock(c) ==
    /\ client[c].pc = "enq_lock"
    /\ queueMutex_ = NoThread
    /\ queueMutex_' = Thread("client", c)
    /\ client' = [client EXCEPT ![c].pc = "enq_push"]
    /\ UNCHANGED <<tasks, registry, queue, timers, now, stop_,
                   activeThreads_, stats_, tasksMutex_, worker, calls,
                   condition_, dtor, enq>>

\* ThreadPool::enqueue, lines 340-344: throw when stopped, else push; the
\* lock is released either way
EnqueuePush(c) ==
    /\ client[c].pc = "enq_push"
    /\ queueMutex_ = Thread("client", c)
    /\ queueMutex_' = NoThread
    /\ LET t == client[c].tid IN
       /\ queue' = Enqueue(t)
       /\ tasks' = [tasks EXCEPT ![t] = Enqueued(tasks[t])]
       /\ client' = [client EXCEPT ![c] =
              IF EnqueueThrows
              THEN [@ EXCEPT !.pc = "ret",
                             !.ret = Ret("TaskSchedulerException", 0)]
              ELSE [@ EXCEPT !.pc = "enq_notify"]]
    /\ UNCHANGED <<registry, timers, now, stop_, activeThreads_, stats_,
                   tasksMutex_, worker, calls, condition_, dtor, enq>>

\* ThreadPool::enqueue, line 345, and the return of scheduleTask, line 418
EnqueueNotify(c) ==
    /\ client[c].pc = "enq_notify"
    /\ condition_' \in NotifyOne
    /\ client' = [client EXCEPT ![c].pc = "ret",
                                ![c].ret = Ret("task", client[c].tid)]
    /\ UNCHANGED <<tasks, registry, queue, timers, now, stop_,
                   activeThreads_, stats_, tasksMutex_, worker, calls,
                   queueMutex_, dtor, enq>>

\* The timer thread, lines 410-413: it wakes at the scheduled time
TimerWake(t) ==
    /\ t \in timers
    /\ now >= tasks[t].scheduledTime
    /\ timers' = timers \ {t}
    /\ tasks' = [tasks EXCEPT ![t].fireStatus = tasks[t].status]
    /\ enq' = enq \cup {[task |-> t, pc |-> "lock"]}
    /\ UNCHANGED <<registry, queue, now, stop_, activeThreads_, stats_,
                   tasksMutex_, worker, client, calls, queueMutex_,
                   condition_, dtor>>

\* The timer thread in ThreadPool::enqueue, line 339, on a pool that still
\* exists
TimerLock(t) ==
    /\ [task |-> t, pc |-> "lock"] \in enq
    /\ dtor # "done"
    /\ queueMutex_ = NoThread
    /\ queueMutex_' = Thread("timer", t)
    /\ enq' = (enq \ {[task |-> t, pc |-> "lock"]})
                  \cup {[task |-> t, pc |-> "push"]}
    /\ UNCHANGED <<tasks, registry, queue, timers, now, stop_,
                   activeThreads_, stats_, tasksMutex_, worker, client,
                   calls, condition_, dtor>>

\* The timer thread in ThreadPool::enqueue on a destroyed pool: the test of
\* stop_ reads a dead object, and the call either pushes or throws.
TimerDead(t) ==
    /\ [task |-> t, pc |-> "lock"] \in enq
    /\ dtor = "done"
    /\ \/ /\ queue' = queue \cup {t}
          /\ tasks' = [tasks EXCEPT ![t].enqDead = TRUE]
          /\ enq' = enq \ {[task |-> t, pc |-> "lock"]}
          /\ UNCHANGED <<timers, worker, client, tasksMutex_, queueMutex_,
                         condition_, dtor>>
       \/ /\ tasks' = [tasks EXCEPT ![t].enqThrew = TRUE]
          /\ Terminate
          /\ UNCHANGED queue
    /\ UNCHANGED <<registry, now, stop_, activeThreads_, stats_, calls>>

\* The timer thread in ThreadPool::enqueue, lines 340-344: the exception
\* leaves the thread's function, which ends the process
TimerPush(t) ==
    /\ [task |-> t, pc |-> "push"] \in enq
    /\ queueMutex_ = Thread("timer", t)
    /\ queue' = Enqueue(t)
    /\ tasks' = [tasks EXCEPT ![t] = Enqueued(tasks[t])]
    /\ IF EnqueueThrows
       THEN Terminate
       ELSE /\ queueMutex_' = NoThread
            /\ enq' = (enq \ {[task |-> t, pc |-> "push"]})
                          \cup {[task |-> t, pc |-> "notify"]}
            /\ UNCHANGED <<timers, worker, client, tasksMutex_, condition_,
                           dtor>>
    /\ UNCHANGED <<registry, now, stop_, activeThreads_, stats_, calls>>

\* The timer thread in ThreadPool::enqueue, line 345; the thread ends
TimerNotify(t) ==
    /\ [task |-> t, pc |-> "notify"] \in enq
    /\ condition_' \in NotifyOne
    /\ enq' = enq \ {[task |-> t, pc |-> "notify"]}
    /\ UNCHANGED <<tasks, registry, queue, timers, now, stop_,
                   activeThreads_, stats_, tasksMutex_, worker, client,
                   calls, queueMutex_, dtor>>

\* ThreadPool::~ThreadPool, line 324: the lock.  The scheduler is destroyed
\* by its owner when no call is in progress.
DtorLock ==
    /\ dtor = "none"
    /\ \A c \in Clients : client[c].pc = "idle"
    /\ queueMutex_ = NoThread
    /\ queueMutex_' = Thread("dtor", 0)
    /\ dtor' = "lock"
    /\ UNCHANGED <<tasks, registry, queue, timers, now, stop_,
                   activeThreads_, stats_, tasksMutex_, worker, client,
                   calls, condition_, enq>>

\* ThreadPool::~ThreadPool, lines 325-326: stop_ = true, unlock
DtorStop ==
    /\ dtor = "lock"
    /\ stop_' = TRUE
    /\ queueMutex_' = NoThread
    /\ dtor' = "notify"
    /\ UNCHANGED <<tasks, registry, queue, timers, now, activeThreads_,
                   stats_, tasksMutex_, worker, client, calls, condition_,
                   enq>>

\* ThreadPool::~ThreadPool, line 328
DtorNotifyAll ==
    /\ dtor = "notify"
    /\ condition_' \in NotifyAll
    /\ dtor' = "join"
    /\ UNCHANGED <<tasks, registry, queue, timers, now, stop_,
                   activeThreads_, stats_, tasksMutex_, worker, client,
                   calls, queueMutex_, enq>>

\* ThreadPool::~ThreadPool, lines 330-335: every join has returned
DtorJoin ==
    /\ dtor = "join"
    /\ AllExited
    /\ dtor' = "done"
    /\ UNCHANGED <<tasks, registry, queue, timers, now, stop_,
                   activeThreads_, stats_, tasksMutex_, worker, client,
                   calls, queueMutex_, condition_, enq>>

PoolWorkerSteps(w) ==
    \/ PoolLock(w)
    \/ PoolWait(w)
    \/ PoolTake(w)
    \/ WorkerInc(w)
    \/ ExecuteCheck(w)
    \/ ExecuteSetRunning(w)
    \/ ExecuteRun(w)
    \/ ExecuteSetFinal(w)
    \/ WorkerDec(w)

PoolWorker == \E w \in Workers : PoolWorkerSteps(w) \/ SpuriousWake(w)

\* The steps of a timer thread after its lock of queueMutex_
TimerSteps(t) ==
    \/ TimerWake(t)
    \/ TimerPush(t)
    \/ TimerNotify(t)

PoolTimer == \E t \in TaskIds : TimerLock(t) \/ TimerSteps(t)

PoolDtorSteps ==
    \/ DtorStop
    \/ DtorNotifyAll
    \/ DtorJoin

PoolDtor == DtorLock \/ PoolDtorSteps

\* The tasks scheduled on the pool at this level: one due at once that
\* returns a value, one due later that throws.
PoolInputs ==
    {Input(HIGH, 0, TRUE, FALSE, FALSE), Input(LOW, 1, TRUE, TRUE, TRUE)}

PoolEnqueueSteps(c) ==
    \/ EnqueuePush(c)
    \/ EnqueueNotify(c)

PoolSchedule ==
    \/ \E c \in Clients, name \in Names, in \in PoolInputs :
           ScheduleRegister(c, name, in.priority, in.scheduledTime,
                            in.cancellable, in.throws, in.isVoid)
    \/ \E c \in Clients : EnqueueLock(c) \/ PoolEnqueueSteps(c)

PoolQuery ==
    \E c \in Clients :
        \/ \E name \in Names : getTaskStatus(c, name)
        \/ StatusRecheck(c)
        \/ getStatistics(c)
        \/ StatisticsScan(c)
        \/ listTasks(c)
        \/ ListScan(c)

\* The steps of waitForTask after its first poll
WaitTaskSteps(c) ==
    \/ WaitPoll(c)
    \/ WaitResult(c)
    \/ StatusRecheck(c)

PoolWaitTask ==
    \E c \in Clients :
        \/ \E name \in Names, wantVoid \in BOOLEAN :
               waitForTask(c, name, wantVoid)
        \/ WaitTaskSteps(c)

\* The steps of waitForAll after its first scan began
WaitAllSteps(c) ==
    \/ WaitAllAgain(c)
    \/ WaitAllScan(c)

PoolWaitAll ==
    \E c \in Clients : waitForAll(c) \/ WaitAllSteps(c)

\* Scheduler calls, workers, timer threads and the destructor, with the
\* two locks explicit
NextPool ==
    \/ Tick
    \/ PoolWorker
    \/ PoolTimer
    \/ \E t \in TaskIds : TimerDead(t)
    \/ PoolDtor
    \/ PoolSchedule
    \/ Cancel
    \/ PoolQuery
    \/ PoolWaitAll
    \/ Clean
    \/ \E c \in Clients : Return(c)

SpecPool == Init /\ [][NextPool]_vars

\* A scheduler used by a single caller thread.
InitOneClient == Start(NumWorkers, 1)

\* Scheduling and shutdown only
NextShutdown ==
    \/ Tick
    \/ PoolWorker
    \/ PoolTimer
    \/ \E t \in TaskIds : TimerDead(t)
    \/ PoolDtor
    \/ PoolSchedule
    \/ \E c \in Clients : Return(c)

\* Scheduling and waiting on a pool that is not shut down
NextProgress ==
    \/ Tick
    \/ PoolWorker
    \/ PoolTimer
    \/ PoolSchedule
    \/ PoolWaitTask
    \/ PoolWaitAll
    \/ \E c \in Clients : Return(c)

\* Fair scheduling of the threads: the clock advances; a thread that can
\* take a step other than locking queueMutex_ eventually takes one; a
\* thread that wants queueMutex_ and finds it free again and again
\* eventually gets it.  Nothing obliges a caller to start a call, the
\* owner to destroy the scheduler, or a wait to return spuriously.
FairWorkers ==
    \A w \in 1..NumWorkers :
        /\ SF_vars(PoolLock(w))
        /\ WF_vars(PoolWait(w) \/ PoolTake(w) \/ WorkerInc(w)
                     \/ ExecuteCheck(w) \/ ExecuteSetRunning(w)
                     \/ ExecuteRun(w) \/ ExecuteSetFinal(w)
                     \/ WorkerDec(w))

FairTimers ==
    \A t \in 1..MaxTasks :
        /\ SF_vars(TimerLock(t))
        /\ WF_vars(TimerSteps(t))

FairCaller ==
    /\ SF_vars(EnqueueLock(1))
    /\ WF_vars(PoolEnqueueSteps(1) \/ WaitTaskSteps(1) \/ WaitAllSteps(1)
                 \/ Return(1))

SpecShutdown ==
    /\ InitOneClient
    /\ [][NextShutdown]_vars
    /\ WF_vars(Tick)
    /\ FairWorkers
    /\ FairTimers
    /\ FairCaller
    /\ WF_vars(PoolDtorSteps)

SpecProgress ==
    /\ InitOneClient
    /\ [][NextProgress]_vars
    /\ WF_vars(Tick)
    /\ FairWorkers
    /\ FairTimers
    /\ FairCaller

\* =============================================================== claims

\* The worker holding task t, if any, and a cancelTask in progress on t.
Held(t)       == \E w \in Workers : worker[w].task = t
Cancelling(t) == \E c \in Clients :
                     /\ client[c].op = "cancelTask"
                     /\ client[c].tid = t
                     /\ client[c].pc # "ret"

AllowedChange ==
    { <<"PENDING", "RUNNING">>, <<"RUNNING", "COMPLETED">>,
      <<"RUNNING", "FAILED">>, <<"PENDING", "CANCELLED">> }

\* C1: every change of a task's status is PENDING->RUNNING,
\* RUNNING->COMPLETED, RUNNING->FAILED or PENDING->CANCELLED, and a status
\* of COMPLETED, FAILED or CANCELLED never changes again.
C1_StatusChanges ==
    [][\A t \in TaskIds :
          /\ tasks'[t].status # tasks[t].status
                => <<tasks[t].status, tasks'[t].status>> \in AllowedChange
          /\ tasks[t].status \in Terminal
                => tasks'[t].status = tasks[t].status]_vars

\* C2: cancelTask on a task it finds RUNNING, COMPLETED, FAILED or CANCELLED
\* returns false without writing the status, and a task that has been
\* RUNNING (it is RUNNING, COMPLETED or FAILED) never becomes CANCELLED.
C2_NoCancelOnceRunning ==
    [][/\ \A c \in Clients :
             (/\ client[c].pc = "idle"
              /\ client'[c].op = "cancelTask"
              /\ client'[c].tid # 0
              /\ tasks[client'[c].tid].status # "PENDING")
             => /\ client'[c].pc = "ret"
                /\ client'[c].ret = Ret("false", 0)
                /\ tasks' = tasks
       /\ \A t \in TaskIds :
             tasks[t].status \in {"RUNNING", "COMPLETED", "FAILED"}
             => tasks'[t].status # "CANCELLED"]_vars

\* C3: when cancelTask returns true the task is cancellable, the call found
\* it PENDING and moved it, and its status is CANCELLED; on a task that is
\* not cancellable the call returns false and writes nothing.
C3_TrueMeansCancelled ==
    \A c \in Clients :
        (client[c].op = "cancelTask" /\ client[c].tid # 0) =>
            LET t == client[c].tid IN
            /\ (client[c].pc = "ret" /\ client[c].ret = Ret("true", 0))
                   => /\ tasks[t].cancellable
                      /\ client[c].status = "PENDING"
                      /\ tasks[t].status = "CANCELLED"
            /\ ~tasks[t].cancellable
                   => /\ client[c].pc = "ret"
                      /\ client[c].ret = Ret("false", 0)

\* C4: a task whose status was already CANCELLED when a worker dequeued it
\* is never invoked, gets no value and no error, and stays CANCELLED.
C4_CancelledBeforeDequeue ==
    \A t \in TaskIds :
        tasks[t].popStatus = "CANCELLED" =>
            /\ tasks[t].invoked = 0
            /\ ~tasks[t].hasResult
            /\ ~tasks[t].hasException
            /\ tasks[t].status = "CANCELLED"

\* C4 witness: a worker dequeued a cancelled task and is done with it.
C4_Witness ==
    \E t \in TaskIds :
        /\ tasks[t].popStatus = "CANCELLED"
        /\ ~Held(t)
        /\ ~Cancelling(t)

\* C5: when a worker pops, no task left in the ready queue has a higher
\* priority than the task popped.
C5_HigherPriorityFirst ==
    \A w \in Workers :
        worker[w].pc = "inc" =>
            \A a \in worker[w].left :
                ~(tasks[a].priority > tasks[worker[w].task].priority)

\* C5 witness: a pop took the higher-priority task although it was
\* enqueued after the lower-priority task it left behind.
C5_Witness ==
    \E w \in Workers :
        /\ worker[w].pc = "inc"
        /\ \E b \in worker[w].left :
              /\ tasks[worker[w].task].priority > tasks[b].priority
              /\ worker[w].task > b
              /\ tasks[b].scheduledTime <= tasks[worker[w].task].scheduledTime

\* C6: when a worker pops, no task of the same priority left in the ready
\* queue has a strictly earlier scheduled time than the task popped.
C6_EarlierTimeFirst ==
    \A w \in Workers :
        worker[w].pc = "inc" =>
            \A a \in worker[w].left :
                tasks[a].priority = tasks[worker[w].task].priority
                => ~(tasks[a].scheduledTime
                         < tasks[worker[w].task].scheduledTime)

\* C6 witness: a pop took the earlier of two tasks of equal priority,
\* enqueued after the later one.
C6_Witness ==
    \E w \in Workers :
        /\ worker[w].pc = "inc"
        /\ \E b \in worker[w].left :
              /\ tasks[worker[w].task].priority = tasks[b].priority
              /\ tasks[worker[w].task].scheduledTime < tasks[b].scheduledTime
              /\ worker[w].task > b

\* C7: scheduleTask under a name already registered fails with
\* DuplicateTask and leaves the task objects (status, result), the registry,
\* the ready queue, the counters and the timers as they were.
C7_DuplicateChangesNothing ==
    [][\A c \in Clients :
          (/\ client[c].pc = "idle"
           /\ client'[c].op = "scheduleTask"
           /\ client'[c].name \in Registered)
          => /\ client'[c].pc = "ret"
             /\ client'[c].ret = Ret("DuplicateTask", 0)
             /\ UNCHANGED <<tasks, registry, queue, stats_, timers>>]_vars

\* C7 witness: a call has failed with DuplicateTask while the task first
\* registered under the name is underway.
C7_Witness ==
    \E c \in Clients :
        /\ client[c].pc = "ret"
        /\ client[c].op = "scheduleTask"
        /\ client[c].ret = Ret("DuplicateTask", 0)
        /\ tasks[registry[client[c].name]].status = "RUNNING"

\* C8: when waitForAll returns, every registered task is COMPLETED, FAILED
\* or CANCELLED.
C8_WaitForAllMeansAllDone ==
    \A c \in Clients :
        (client[c].pc = "ret" /\ client[c].op = "waitForAll")
        => \A n \in Registered : tasks[registry[n]].status \in Terminal

\* C9: cleanup visits every registered name; it erases an entry exactly when
\* the task's status is COMPLETED, FAILED or CANCELLED as it visits it; no
\* other step erases an entry; and cleanup writes no task, no counter and
\* not the ready queue.
C9_CleanupErasesTerminal ==
    [][/\ \A c \in Clients :
             (client[c].pc = "idle" /\ client'[c].op = "cleanup")
             => /\ client'[c].todo = Registered
                /\ UNCHANGED <<tasks, registry, queue, stats_,
                               activeThreads_>>
       /\ \A c \in Clients :
             (client[c].pc = "cleanup_scan" /\ client'[c] # client[c])
             => /\ \A n \in client[c].todo \ client'[c].todo :
                      IF tasks[registry[n]].status \in Terminal
                      THEN registry'[n] = 0
                      ELSE registry'[n] = registry[n]
                /\ \A n \in Names \ (client[c].todo \ client'[c].todo) :
                      registry'[n] = registry[n]
                /\ client'[c].pc = "ret" <=> client[c].todo = {}
                /\ UNCHANGED <<tasks, queue, stats_, activeThreads_>>
       /\ \A n \in Names :
             (registry[n] # 0 /\ registry'[n] # registry[n])
             => \E c \in Clients :
                    /\ client[c].pc = "cleanup_scan"
                    /\ client'[c] # client[c]]_vars

\* C9 witness: cleanup has finished, having erased a terminal task and kept
\* one that is PENDING or RUNNING.
C9_Witness ==
    \E c \in Clients :
        /\ client[c].pc = "ret"
        /\ client[c].op = "cleanup"
        /\ \E t \in TaskIds :
              /\ \A n \in Names : registry[n] # t
              /\ tasks[t].status \in Terminal
        /\ \E n \in Registered :
              tasks[registry[n]].status \in {"PENDING", "RUNNING"}

\* C10: once the execution of a task whose callable raises E is over, its
\* status is FAILED with E captured, and a waitForTask or
\* getTaskResult(...).getResult() that reads the task after the callable
\* raised ends by raising E.
C10_FailureKeepsError ==
    [][/\ \A t \in TaskIds :
             (/\ tasks[t].throws
              /\ tasks[t].invoked > 0
              /\ ~Held(t)
              /\ ~Cancelling(t))
             => /\ tasks[t].status = "FAILED"
                /\ tasks[t].hasException
                /\ tasks[t].error = ErrorOf(t)
       /\ \A c \in Clients :
             (/\ client[c].pc # "ret"
              /\ client'[c].pc = "ret"
              /\ client'[c].op \in {"waitForTask", "getTaskResult"}
              /\ client'[c].tid # 0
              /\ client'[c].wantVoid = tasks[client'[c].tid].isVoid
              /\ tasks[client'[c].tid].throws
              /\ tasks[client'[c].tid].invoked > 0)
             => client'[c].ret
                    = Ret("user_error", ErrorOf(client'[c].tid))]_vars

\* C11: retrieving the result of a registered task whose status is PENDING,
\* RUNNING or CANCELLED fails with "not completed" or "no result", yields no
\* value, and leaves every task's status and stored result as they were.
\* (The result is asked for with the task's own result type.)
C11_NoValueBeforeCompletion ==
    [][\A c \in Clients :
         LET n == client'[c].name
             t == registry[n]
         IN  ( /\ client[c].pc = "idle"
               /\ client'[c].pc = "ret"
               /\ client'[c].op = "getTaskResult"
               /\ n \in Registered
               /\ tasks[t].isVoid = client'[c].wantVoid
               /\ tasks[t].status \in {"PENDING", "RUNNING", "CANCELLED"} )
             => /\ client'[c].ret.kind \in {"NotCompleted", "NoResult"}
                /\ tasks' = tasks]_vars

C14_CancelledDelayedTask ==
    [][\A t \in TaskIds :
         tasks[t].delayed =>
           /\ \A c \in Clients :
                  ( /\ client[c].pc = "idle"
                    /\ client'[c].op = "cancelTask"
                    /\ registry[client'[c].name] = t
                    /\ t \in timers
                    /\ tasks[t].cancellable
                    /\ tasks[t].status = "PENDING" )
                  => client'[c].pc = "cancel_test"
           /\ \A c \in Clients :
                  ( /\ client[c].op = "cancelTask"
                    /\ client[c].tid = t
                    /\ client[c].pc \in {"cancel_test", "cancel_set",
                                         "cancel_mirror", "cancel_count"}
                    /\ client'[c].pc = "ret"
                    /\ t \in timers )
                  => /\ client'[c].ret = Ret("true", 0)
                     /\ tasks[t].status = "CANCELLED"
           /\ ( /\ t \in timers
                /\ t \notin timers'
                /\ tasks[t].status = "CANCELLED"
                /\ ~stop_ )
              => (t \in queue' /\ tasks'[t].enqueues = 1)
           /\ ( \/ t \in timers /\ tasks[t].status = "CANCELLED"
                \/ tasks[t].fireStatus = "CANCELLED" )
              => /\ tasks'[t].status = "CANCELLED"
                 /\ tasks'[t].invoked = 0
                 /\ ~tasks'[t].hasResult
                 /\ ~tasks'[t].hasException
      ]_vars

\* A delayed task was cancelled before its timer woke, was enqueued all the
\* same, and a worker popped it and is done with it.
C14_Witness ==
    \E t \in TaskIds :
        /\ tasks[t].delayed
        /\ tasks[t].fireStatus = "CANCELLED"
        /\ tasks[t].pops = 1
        /\ ~Held(t)
        /\ tasks[t].status = "CANCELLED"
        /\ tasks[t].invoked = 0
        /\ stats_.cancelledTasks = 1

\* C15 (one worker): when a task is scheduled for now and a task of lower
\* priority is scheduled for now after it, the first has reached a terminal
\* status, and the worker is done with it, before the second is popped or
\* becomes RUNNING.
C15_HighBeforeLowOnOneWorker ==
    \A a, b \in TaskIds :
        ( /\ a < b
          /\ ~tasks[a].delayed
          /\ ~tasks[b].delayed
          /\ tasks[a].priority > tasks[b].priority
          /\ (tasks[b].status = "RUNNING" \/ tasks[b].pops > 0) )
        => (tasks[a].status \in Terminal /\ ~Held(a))

\* "a" (HIGH) then "b" (LOW) on one worker: "b" is running, "a" completed.
C15_Witness ==
    /\ Cardinality(Workers) = 1
    /\ Len(tasks) = 2
    /\ tasks[1].name = "a" /\ tasks[1].priority = HIGH
    /\ tasks[2].name = "b" /\ tasks[2].priority = LOW
    /\ tasks[1].status = "COMPLETED"
    /\ tasks[2].status = "RUNNING"

\* C16: every task is pushed on the ready queue at most once, by
\* scheduleTask or by its timer and never by both; it is popped at most
\* once, so at most one worker ever holds it and calls execute(); and its
\* callable is invoked at most once.
Pushes(t) == tasks[t].enqueues + (IF tasks[t].enqDead THEN 1 ELSE 0)

C16_ExecutedAtMostOnce ==
    \A t \in TaskIds :
        /\ Pushes(t) <= 1
        /\ (tasks[t].delayed /\ t \in timers) => Pushes(t) = 0
        /\ (~tasks[t].delayed) => tasks[t].fireStatus = "none"
        /\ tasks[t].pops <= Pushes(t)
        /\ tasks[t].invoked <= tasks[t].pops
        /\ Cardinality({w \in Workers : worker[w].task = t}) <= 1

\* Two tasks, one pushed by scheduleTask and one by its timer, each popped
\* and run once, while both workers are busy.
C16_Witness ==
    \E a, b \in TaskIds :
        /\ ~tasks[a].delayed /\ tasks[b].delayed
        /\ tasks[a].enqueues = 1 /\ tasks[b].enqueues = 1
        /\ tasks[a].pops = 1 /\ tasks[b].pops = 1
        /\ tasks[a].invoked = 1 /\ tasks[b].invoked = 1
        /\ Held(a) /\ Held(b)

\* C17: a task scheduled for a future time is not in the ready queue, is
\* not popped and does not run before the clock has reached its scheduled
\* time; a task scheduled with scheduledTime <= now is in the ready queue,
\* or already popped, when scheduleTask returns.
C17_NotBeforeScheduledTime ==
    /\ \A t \in TaskIds :
           ( \/ t \in queue
             \/ tasks[t].pops > 0
             \/ tasks[t].status = "RUNNING"
             \/ tasks[t].invoked > 0 )
           => now >= tasks[t].scheduledTime
    /\ \A t \in TaskIds :
           (tasks[t].delayed /\ now < tasks[t].scheduledTime)
           => (t \in timers /\ tasks[t].fireStatus = "none")
    /\ \A c \in Clients :
           ( /\ client[c].pc = "ret"
             /\ client[c].op = "scheduleTask"
             /\ client[c].ret.kind = "task"
             /\ ~tasks[client[c].ret.val].delayed )
           => \/ client[c].ret.val \in queue
              \/ tasks[client[c].ret.val].pops > 0

\* A task scheduled for later is running (its time has come) while a
\* scheduleTask call of a due task is returning with the task queued.
C17_Witness ==
    /\ \E t \in TaskIds :
           /\ tasks[t].delayed
           /\ tasks[t].scheduledTime = MaxTime
           /\ tasks[t].status = "RUNNING"
    /\ \E c \in Clients :
           /\ client[c].pc = "ret"
           /\ client[c].op = "scheduleTask"
           /\ client[c].ret.kind = "task"
           /\ ~tasks[client[c].ret.val].delayed
           /\ client[c].ret.val \in queue

\* C18: the completed and failed counts that getStatistics() returns are the
\* numbers of tasks that have reached COMPLETED and FAILED, whether or not
\* getTaskStatus was ever called on them.
C18_StatisticsCountOutcomes ==
    [][\A c \in Clients :
         ( /\ client[c].pc = "stats_scan"
           /\ client'[c].pc = "ret" )
         => /\ client'[c].stats.completedTasks =
                   Cardinality({t \in TaskIds :
                                    tasks[t].status = "COMPLETED"})
            /\ client'[c].stats.failedTasks =
                   Cardinality({t \in TaskIds : tasks[t].status = "FAILED"})
      ]_vars

\* C19: cancelTask, getTaskStatus, getTaskResult, getTaskResultAsAny and
\* waitForTask fail with TaskNotFound when the name is not in the registry
\* at their lookup, and the failed call changes neither the registry, nor
\* any task, nor the ready queue, nor a counter.
LookupOps ==
    {"cancelTask", "getTaskStatus", "getTaskResult", "getTaskResultAsAny",
     "waitForTask"}

C19_UnknownNameFails ==
    [][\A c \in Clients :
         ( /\ client'[c] # client[c]
           /\ client[c].pc \in {"idle", "wait_poll", "wait_result"}
           /\ client'[c].op \in LookupOps
           /\ client'[c].name \notin Registered )
         => /\ client'[c].pc = "ret"
            /\ client'[c].ret = Ret("TaskNotFound", 0)
            /\ UNCHANGED <<registry, tasks, queue, timers, stats_,
                           activeThreads_>>
      ]_vars

\* A getTaskResultAsAny call has failed with TaskNotFound while the
\* scheduler holds a task under another name.
C19_Witness ==
    /\ Registered # {}
    /\ \E c \in Clients :
           /\ client[c].pc = "ret"
           /\ client[c].op = "getTaskResultAsAny"
           /\ client[c].name \notin Registered
           /\ client[c].ret = Ret("TaskNotFound", 0)

\* C20: a name is bound to at most one task; the binding stays until
\* cleanup() erases it with the task in a terminal status; a task is
\* created only by a scheduleTask under a name that is unbound at that
\* moment, and it is a fresh PENDING task bound to that name.
C20_NameBoundUntilCleanup ==
    [][ /\ \A n \in Names :
             (registry[n] # 0 /\ registry'[n] # registry[n])
             => /\ registry'[n] = 0
                /\ tasks[registry[n]].status \in Terminal
                /\ \E c \in Clients : /\ client[c].op = "cleanup"
                                      /\ client[c].pc = "cleanup_scan"
                                      /\ tasksMutex_ = c
                /\ tasks' = tasks
        /\ \A n \in Names :
             (registry[n] = 0 /\ registry'[n] # 0)
             => /\ registry'[n] = Len(tasks) + 1
                /\ Len(tasks') = Len(tasks) + 1
                /\ tasks'[registry'[n]].name = n
                /\ tasks'[registry'[n]].status = "PENDING"
                /\ tasks'[registry'[n]].invoked = 0
                /\ \A m \in Names \ {n} : registry'[m] = registry[m]
        /\ Len(tasks') # Len(tasks)
             => \E n \in Names : registry[n] = 0 /\ registry'[n] = Len(tasks')
        /\ \A n \in Names :
             registry'[n] # 0 =>
                 /\ tasks'[registry'[n]].name = n
                 /\ \A m \in Names \ {n} : registry'[m] # registry'[n]
      ]_vars

\* A name was bound to a task, erased by cleanup(), and is now bound to a
\* second, fresh task.
C20_Witness ==
    \E n \in Names :
        /\ registry[n] = 2
        /\ tasks[1].name = n
        /\ tasks[1].status \in Terminal
        /\ tasks[2].name = n
        /\ tasks[2].status = "PENDING"

\* The TaskResult held by task t: value, error and its own status.
Holder(t) ==
    [hasResult |-> tasks[t].hasResult, value |-> tasks[t].value,
     hasException |-> tasks[t].hasException, error |-> tasks[t].error,
     status |-> tasks[t].rStatus]

EmptyHolder ==
    [hasResult |-> FALSE, value |-> 0, hasException |-> FALSE, error |-> 0,
     status |-> "PENDING"]

\* C21: a task's result holder starts empty and is written at most once: by
\* the worker that executes the task (or, for a task cancelled while
\* PENDING, marked CANCELLED by the cancel), always from the empty state,
\* and never modified afterwards, however cancelTask interleaves with the
\* execution.
C21_ResultWrittenOnce ==
    [][\A t \in TaskIds :
         Holder(t)' # Holder(t) =>
           /\ Holder(t) = EmptyHolder
           /\ \/ \E w \in Workers : /\ worker[w].task = t
                                    /\ worker[w].pc = "run"
                                    /\ worker'[w].pc = "set_final"
              \/ /\ Holder(t)' = [EmptyHolder EXCEPT !.status = "CANCELLED"]
                 /\ \E c \in Clients : /\ client[c].tid = t
                                       /\ client[c].pc = "cancel_mirror"
      ]_vars

\* The workers between ++activeThreads_ and --activeThreads_ (lines 314-316)
Executing == {w \in Workers :
                 worker[w].pc \in {"check", "set_running", "run",
                                   "set_final", "dec"}}

\* C24: a worker that has set its task RUNNING keeps that task, whatever is
\* enqueued meanwhile, until it has stored COMPLETED or FAILED; the workers
\* inside execute(), and the active-thread count, which equals their
\* number, never exceed the number of workers.
C24_NoPreemption ==
    [][ /\ \A w \in Workers :
             worker[w].pc \in {"run", "set_final"} =>
               /\ worker'[w].task = worker[w].task
               /\ worker'[w].pc \in {worker[w].pc, "set_final", "dec"}
               /\ (worker[w].pc = "set_final" /\ worker'[w].pc = "dec")
                  => tasks'[worker[w].task].status \in {"COMPLETED", "FAILED"}
        /\ activeThreads_' = Cardinality(Executing')
        /\ activeThreads_' <= Cardinality(Workers)
        /\ \A w1, w2 \in Executing' :
             w1 # w2 => worker'[w1].task # worker'[w2].task
      ]_vars

\* A worker is running a LOW task while a HIGH task waits in the queue.
C24_Witness ==
    \E w \in Workers, u \in queue :
        /\ worker[w].pc = "run"
        /\ tasks[worker[w].task].status = "RUNNING"
        /\ tasks[worker[w].task].priority = LOW
        /\ tasks[u].priority = HIGH
        /\ activeThreads_ = 1

\* C25: when cancelTask(name) has returned true, the task's callable has
\* not been invoked and is never invoked later.
C25_TrueMeansNeverInvoked ==
    \A c \in Clients :
        ( /\ client[c].pc = "ret"
          /\ client[c].op = "cancelTask"
          /\ client[c].ret = Ret("true", 0) )
        => tasks[client[c].tid].invoked = 0

\* C27: the worker stores the value or the error before the final status,
\* so a task whose status is COMPLETED holds its value (a void task has
\* none), a task whose status is FAILED holds its error, and getResult() on
\* a COMPLETED task, as waitForTask calls it, does not raise "no result".
C27_ResultBeforeStatus ==
    \A t \in TaskIds :
        /\ tasks[t].status = "COMPLETED" =>
               /\ tasks[t].isVoid \/ (tasks[t].hasResult
                                      /\ tasks[t].value = ValueOf(t))
               /\ GetResult(tasks[t], t).kind # "NoResult"
               /\ tasks[t].invoked = 1
        /\ tasks[t].status = "FAILED" =>
               /\ tasks[t].hasException
               /\ tasks[t].error = ErrorOf(t)
               /\ GetResult(tasks[t], t) = Ret("user_error", ErrorOf(t))

\* One task COMPLETED with its value, one FAILED with its error, and a
\* waitForTask call returning the value.
C27_Witness ==
    /\ \E t \in TaskIds : tasks[t].status = "COMPLETED" /\ tasks[t].hasResult
    /\ \E t \in TaskIds : tasks[t].status = "FAILED" /\ tasks[t].hasException
    /\ \E c \in Clients :
           /\ client[c].pc = "ret"
           /\ client[c].op = "waitForTask"
           /\ client[c].ret.kind = "value"
           /\ client[c].ret.val = ValueOf(client[c].tid)

\* C28 as stated: a waitForTask call that found its name registered when it
\* was called never ends with TaskNotFound, even when cleanup() runs during
\* the wait.
C28_WaitNeverNotFound ==
    [][\A c \in Clients :
         ( /\ client[c].op = "waitForTask"
           /\ client[c].pc \in {"status_recheck", "wait_poll", "wait_result"}
           /\ client'[c].pc = "ret" )
         => client'[c].ret.kind # "TaskNotFound"
      ]_vars

\* C28, amended: waitForTask looks the name up again at every poll and when
\* it fetches the result; it ends with TaskNotFound exactly when the name
\* is absent from the registry at one of its lookups, the first or a later
\* one after cleanup() erased the task.
C28_NotFoundIffAbsentAtLookup ==
    [][\A c \in Clients :
         ( /\ client'[c] # client[c]
           /\ client'[c].op = "waitForTask" )
         => ( ( /\ client'[c].pc = "ret"
                /\ client'[c].ret.kind = "TaskNotFound" )
              <=> ( /\ client[c].pc \in {"idle", "wait_poll", "wait_result"}
                    /\ client'[c].name \notin Registered ) )
      ]_vars

\* A waitForTask call saw its task in a terminal status and then ended with
\* TaskNotFound, the task having been erased in between.
C28_Witness ==
    \E c \in Clients :
        /\ client[c].pc = "ret"
        /\ client[c].op = "waitForTask"
        /\ client[c].status \in Terminal
        /\ client[c].ret = Ret("TaskNotFound", 0)
        /\ \E t \in TaskIds : tasks[t].name = client[c].name

\* C29: the cancelled count that getStatistics returns is the number of
\* tasks, erased ones included, whose status is CANCELLED.
C29_CancelledCountMatches ==
    [][\A c \in Clients :
         ( /\ client[c].pc = "stats_scan"
           /\ client'[c].pc = "ret" )
         => client'[c].stats.cancelledTasks =
                Cardinality({t \in TaskIds : tasks[t].status = "CANCELLED"})
      ]_vars

\* C30: getTaskStatus, getTaskResult, getTaskResultAsAny, listTasks and
\* getStatistics are read-only: no step of such a call changes the
\* registry, a task's status or result, the ready queue, the timers or a
\* statistics counter, whatever status it observes.
QueryOps ==
    {"getTaskStatus", "getTaskResult", "getTaskResultAsAny", "listTasks",
     "getStatistics"}

Quiescent ==
    /\ queue = {}
    /\ \A w \in Workers : worker[w].task = 0
    /\ \A t \in TaskIds :
           tasks[t].enqueues > 0 =>
               tasks[t].pops > 0 /\ tasks[t].status \in Terminal
    /\ \A c \in Clients :
           client[c].op \in {"waitForTask", "waitForAll"} =>
               client[c].pc = "ret"

CallSteps(c) ==
    \/ PoolEnqueueSteps(c)
    \/ CancelTest(c)
    \/ CancelSet(c)
    \/ CancelMirror(c)
    \/ CancelCount(c)
    \/ StatusRecheck(c)
    \/ StatisticsScan(c)
    \/ ListScan(c)
    \/ WaitAllScan(c)
    \/ CleanupScan(c)
    \/ Return(c)

\* C22: the registry lock and the queue lock never deadlock.  The thread
\* that holds the queue lock can always take its next step, whoever holds
\* the registry lock, so it never asks for the registry lock; a caller
\* that holds the queue lock took it inside scheduleTask, under the
\* registry lock; and the thread that holds the registry lock can take its
\* next step or is waiting for the queue lock only.
C22_NoLockCycle ==
    /\ \A w \in Workers :
           (queueMutex_ = Thread("worker", w))
               => ENABLED (PoolWait(w) \/ PoolTake(w))
    /\ \A t \in TaskIds :
           (queueMutex_ = Thread("timer", t)) => ENABLED TimerPush(t)
    /\ (queueMutex_ = Thread("dtor", 0)) => ENABLED DtorStop
    /\ \A c \in Clients :
           (queueMutex_ = Thread("client", c))
               => (tasksMutex_ = c /\ ENABLED EnqueuePush(c))
    /\ \A c \in Clients :
           (tasksMutex_ = c)
               => (client[c].pc = "enq_lock" \/ ENABLED CallSteps(c))

\* A caller inside scheduleTask holds the registry lock and waits for the
\* queue lock, which a worker holds, while the other caller is inside
\* waitForAll and waits for the registry lock.
C22_Witness ==
    \E c \in Clients, d \in Clients, w \in Workers :
        /\ tasksMutex_ = c
        /\ client[c].pc = "enq_lock"
        /\ queueMutex_ = Thread("worker", w)
        /\ client[d].pc = "all_sleep"


\* C23: shutdown terminates.  Once the destructor has set stop_ and is about
\* to notify, it eventually returns, with every worker out of its loop and
\* none left blocked in the wait.
C23_ShutdownTerminates ==
    (dtor = "notify") ~>
        (dtor = "done" /\ AllExited /\ condition_ = {})

====
